---- MODULE Spec2Model ----
(***************************************************************************)
(* The OWL2Bench query battery of src/owl2bench: the owlready2 backend     *)
(* (owlready2_queries.py) and the rdflib backend (rdflib_queries.py).      *)
(*                                                                         *)
(* An ontology is a set of triples <<subject, property, object>>.  The    *)
(* two external collaborators are modelled by what the code relies on:     *)
(*   - rdflib: g.query evaluates a basic graph pattern over the triples    *)
(*     and yields rows of terms; str(term) is the term's text (its IRI or  *)
(*     its lexical form);                                                  *)
(*   - owlready2: onto.individuals() are the entities of the ontology,     *)
(*     x.prop is the list of values of a property, except that a           *)
(*     FunctionalProperty yields the single value or None (the code uses   *)
(*     x.hasAge that way), and Class.instances() are the members.          *)
(***************************************************************************)
EXTENDS Integers, Sequences, FiniteSets, TLC

VARIABLES
    file,       \* the persisted ontology resource: a set of triples
    backend,    \* which of the two programs runs: "owlready2" | "rdflib"
    pc,         \* index of the next statement of the entry point
    status,     \* "running" | "done" | "raised" | "calls"
    handle,     \* the ontology handle (onto / g)
    idx,        \* number of dict entries run_all_queries_rl has computed
    counts,     \* the dict literal under construction in run_all_queries_rl
    report,     \* the RunReport handed to print
    error,      \* the exception that reached the caller
    calls       \* outcomes of direct calls of one query function

vars == <<file, backend, pc, status, handle, idx, counts, report, error, calls>>

----------------------------------------------------------------------------
(* Bounds of the model. *)

MaxFacts == 2       \* facts in an ontology of the run / call specifications
MaxJoinFacts == 6   \* facts in an ontology of the join specification
MaxAge == 1         \* ages are 0..MaxAge
MaxArity == 2       \* SELECT variables of a SPARQL result
MaxRows == 2        \* distinct rows of a SPARQL result

----------------------------------------------------------------------------
(* Terms. *)

URIRef(t) == [kind |-> "URIRef", text |-> t, dt |-> ""]
Literal(t, d) == [kind |-> "Literal", text |-> t, dt |-> d]
None == [kind |-> "None", text |-> "", dt |-> ""]

Persons == {URIRef("p1"), URIRef("p2")}
Orgs == {URIRef("o1"), URIRef("o2")}
Courses == {URIRef("c1")}
Engineering == URIRef("Engineering")
NonScience == URIRef("NonScience")
Disciplines == {Engineering, NonScience}

Ages == {Literal(ToString(n), "nonNegativeInteger") : n \in 0..MaxAge}

\* int(lexical form): the Python value owlready2 gives a data property value
IntOf(lit) == CHOOSE n \in 0..MaxAge : ToString(n) = lit.text

Backends == {"owlready2", "rdflib"}

----------------------------------------------------------------------------
(* Outcome of one call of a query function: the set it returns, or the     *)
(* exception it raises.                                                    *)

Ok(rows) == [ok |-> TRUE, rows |-> rows, exc |-> ""]
Raised(e) == [ok |-> FALSE, rows |-> {}, exc |-> e]

RdfType == "rdf:type"
Class(c) == URIRef(c)

----------------------------------------------------------------------------
(* rdflib backend. *)

\* str(v): a URIRef or Literal is a str subclass whose text is the IRI or
\* the lexical form; kind and datatype are dropped
Str(v) == v.text

\* tuple(str(v) if v is not None else "" for v in row), over the rows of qres
run_sparql(qres) ==
    {[i \in DOMAIN row |-> IF row[i] # None THEN Str(row[i]) ELSE ""] : row \in qres}

Triples(g, p) == {t \in g : t[2] = p}

\* SELECT DISTINCT ?x ?y WHERE { ?x owl2bench:p ?y }
SelectProperty(g, p) == {<<t[1], t[3]>> : t \in Triples(g, p)}

\* SELECT DISTINCT ?x WHERE { ?x rdf:type owl2bench:c }
SelectClass(g, c) == {<<t[1]>> : t \in {u \in Triples(g, RdfType) : u[3] = Class(c)}}

\* SELECT DISTINCT ?x WHERE { ?x owl2bench:p owl2bench:o }
SelectSubjects(g, p, o) == {<<t[1]>> : t \in {u \in Triples(g, p) : u[3] = o}}

\* SELECT DISTINCT ?s ?org ?z WHERE { ?s rdf:type Student . ?s isStudentOf ?org .
\*   ?org isPartOf ?z . ?z hasCollegeDiscipline Engineering . }
SelectEngineeringStudents(g) ==
    {<<ab[1][1], ab[1][3], ab[2][3]>> :
        ab \in {cd \in Triples(g, "isStudentOf") \X Triples(g, "isPartOf") :
                  /\ cd[1][3] = cd[2][1]
                  /\ <<cd[1][1], RdfType, Class("Student")>> \in g
                  /\ <<cd[2][3], "hasCollegeDiscipline", Engineering>> \in g}}

\* SELECT DISTINCT ?s ?c WHERE { ?s rdf:type Student . ?x rdf:type Organization .
\*   ?x hasDean ?z . ?z teachesCourse ?c . ?s takesCourse ?c . }
SelectDeanCourseStudents(g) ==
    {<<t[1], t[3]>> :
        t \in {u \in Triples(g, "takesCourse") :
                 /\ <<u[1], RdfType, Class("Student")>> \in g
                 /\ \E d \in Triples(g, "hasDean") :
                        /\ <<d[1], RdfType, Class("Organization")>> \in g
                        /\ <<d[3], "teachesCourse", u[3]>> \in g}}
rdf_query_one(g) == run_sparql(SelectProperty(g, "knows"))
rdf_query_two(g) == run_sparql(SelectProperty(g, "isMemberOf"))
rdf_query_three(g) == run_sparql(SelectProperty(g, "isPartOf"))
rdf_query_four(g) == run_sparql(SelectProperty(g, "hasAge"))
rdf_query_five(g) == run_sparql(SelectClass(g, "T20CricketFan"))
rdf_query_six(g) == run_sparql(SelectClass(g, "SelfAwarePerson"))
rdf_query_seven(g) == run_sparql(SelectProperty(g, "hasAlumnus"))
rdf_query_eight(g) == run_sparql(SelectProperty(g, "isAffiliatedOrganizationOf"))
rdf_query_nine(g) == run_sparql(SelectSubjects(g, "hasCollegeDiscipline", NonScience))
rdf_query_ten(g) == run_sparql(SelectProperty(g, "hasCollaborationWith"))
rdf_query_eleven(g) == run_sparql(SelectProperty(g, "isAdvisedBy"))
rdf_query_twelve(g) == run_sparql(SelectClass(g, "Person"))
rdf_query_thirteen(g) == run_sparql(SelectClass(g, "WomanCollege"))
rdf_query_fourteen(g) == run_sparql(SelectClass(g, "LeisureStudent"))
rdf_query_fifteen(g) == run_sparql(SelectProperty(g, "isHeadOf"))
rdf_query_sixteen(g) == run_sparql(SelectProperty(g, "hasHead"))
rdf_query_seventeen(g) == run_sparql(SelectClass(g, "UGStudent"))
rdf_query_eighteen(g) == run_sparql(SelectClass(g, "PeopleWithManyHobbies"))
rdf_query_nineteen(g) == run_sparql(SelectClass(g, "Faculty"))
rdf_query_twenty(g) == run_sparql(SelectProperty(g, "hasSameHomeTownWith"))
rdf_query_twenty_one(g) == run_sparql(SelectEngineeringStudents(g))
rdf_query_twenty_two(g) == run_sparql(SelectDeanCourseStudents(g))

----------------------------------------------------------------------------
(* owlready2 backend. *)

\* onto.individuals(): the entities of the ontology
individuals(onto) ==
    {t[1] : t \in onto}
        \cup {t[3] : t \in {u \in onto : u[2] # RdfType /\ u[3].kind = "URIRef"}}

\* x.p for a property that is not functional: the list of its values
values(onto, x, p) == {t[3] : t \in {u \in onto : u[1] = x /\ u[2] = p}}

\* x.p for a FunctionalProperty: the value, or None
functional_value(onto, x, p) ==
    IF values(onto, x, p) = {} THEN None ELSE CHOOSE v \in values(onto, x, p) : TRUE

\* onto.C.instances()
instances(onto, c) == {t[1] : t \in {u \in Triples(onto, RdfType) : u[3] = Class(c)}}

\* for x in onto.individuals(): for y in x.p: results.add((x, y))
ScanProperty(onto, p) ==
    UNION {{<<x, y>> : y \in values(onto, x, p)} : x \in individuals(onto)}

\* Python truth value of x.hasAge: None and 0 are false
Truthy(v) == v # None /\ IntOf(v) # 0

\* query_one with self-pairs dropped
owl_query_one_irreflexive(onto) == {t \in ScanProperty(onto, "knows") : t[1] # t[2]}

owl_query_one(onto) == ScanProperty(onto, "knows")
owl_query_two(onto) == ScanProperty(onto, "isMemberOf")
owl_query_three(onto) == ScanProperty(onto, "isPartOf")
owl_query_four(onto) ==
    {<<x, IntOf(functional_value(onto, x, "hasAge"))>> :
        x \in {i \in individuals(onto) : Truthy(functional_value(onto, i, "hasAge"))}}
owl_query_five(onto) == instances(onto, "T20CricketFan")
owl_query_six(onto) == instances(onto, "SelfAwarePerson")
owl_query_seven(onto) == ScanProperty(onto, "hasAlumnus")
owl_query_eight(onto) == ScanProperty(onto, "isAffiliatedOrganizationOf")
owl_query_nine(onto) ==
    {x \in individuals(onto) : x \in values(onto, NonScience, "hasCollegeDiscipline")}
owl_query_ten(onto) == ScanProperty(onto, "hasCollaborationWith")
owl_query_eleven(onto) == ScanProperty(onto, "isAdvisedBy")
owl_query_twelve(onto) == instances(onto, "Person")
owl_query_thirteen(onto) == instances(onto, "WomanCollege")
owl_query_fourteen(onto) == instances(onto, "LeisureStudent")
owl_query_fifteen(onto) == ScanProperty(onto, "isHeadOf")
owl_query_sixteen(onto) ==
    \* hasHead is a FunctionalProperty: x.hasHead is one individual or None,
    \* and "for y in x.hasHead" raises TypeError at the first x
    IF individuals(onto) = {} THEN Ok({}) ELSE Raised("TypeError")
owl_query_seventeen(onto) == instances(onto, "UGStudent")
owl_query_eighteen(onto) == instances(onto, "PeopleWithManyHobbies")
owl_query_nineteen(onto) == instances(onto, "Faculty")
owl_query_twenty(onto) == ScanProperty(onto, "hasSameHomeTownWith")
owl_query_twenty_one(onto) ==
    UNION {{<<x, y>> : y \in {o \in values(onto, x, "isStudentOf") :
                \E z \in values(onto, o, "isPartOf") :
                    Engineering \in values(onto, z, "hasCollegeDiscipline")}} :
           x \in instances(onto, "Student")}
owl_query_twenty_two(onto) ==
    UNION {{<<s, c>> : c \in {k \in values(onto, s, "takesCourse") :
                \E x \in instances(onto, "Organization") :
                    \E z \in values(onto, x, "hasDean") :
                        k \in values(onto, z, "teachesCourse")}} :
           s \in instances(onto, "Student")}

----------------------------------------------------------------------------
(* The catalog: the 22 query functions of each module, by name. *)

QueryNames ==
    <<"one", "two", "three", "four", "five", "six", "seven", "eight", "nine", "ten",
      "eleven", "twelve", "thirteen", "fourteen", "fifteen", "sixteen", "seventeen",
      "eighteen", "nineteen", "twenty", "twenty_one", "twenty_two">>

Range(s) == {s[i] : i \in DOMAIN s}
\* the outcome of the owlready2 function query_<name>(onto)
owl_query(name, h) ==
    CASE
   name = "one" -> Ok(owl_query_one(h))
      [] name = "two" -> Ok(owl_query_two(h))
      [] name = "three" -> Ok(owl_query_three(h))
      [] name = "four" -> Ok(owl_query_four(h))
      [] name = "five" -> Ok(owl_query_five(h))
      [] name = "six" -> Ok(owl_query_six(h))
      [] name = "seven" -> Ok(owl_query_seven(h))
      [] name = "eight" -> Ok(owl_query_eight(h))
      [] name = "nine" -> Ok(owl_query_nine(h))
      [] name = "ten" -> Ok(owl_query_ten(h))
      [] name = "eleven" -> Ok(owl_query_eleven(h))
      [] name = "twelve" -> Ok(owl_query_twelve(h))
      [] name = "thirteen" -> Ok(owl_query_thirteen(h))
      [] name = "fourteen" -> Ok(owl_query_fourteen(h))
      [] name = "fifteen" -> Ok(owl_query_fifteen(h))
      [] name = "sixteen" -> owl_query_sixteen(h)
      [] name = "seventeen" -> Ok(owl_query_seventeen(h))
      [] name = "eighteen" -> Ok(owl_query_eighteen(h))
      [] name = "nineteen" -> Ok(owl_query_nineteen(h))
      [] name = "twenty" -> Ok(owl_query_twenty(h))
      [] name = "twenty_one" -> Ok(owl_query_twenty_one(h))
      [] name = "twenty_two" -> Ok(owl_query_twenty_two(h))

\* the outcome of the rdflib function query_<name>(g)
rdf_query(name, h) ==
    CASE
         name = "one" -> Ok(rdf_query_one(h))
      [] name = "two" -> Ok(rdf_query_two(h))
      [] name = "three" -> Ok(rdf_query_three(h))
      [] name = "four" -> Ok(rdf_query_four(h))
      [] name = "five" -> Ok(rdf_query_five(h))
      [] name = "six" -> Ok(rdf_query_six(h))
      [] name = "seven" -> Ok(rdf_query_seven(h))
      [] name = "eight" -> Ok(rdf_query_eight(h))
      [] name = "nine" -> Ok(rdf_query_nine(h))
      [] name = "ten" -> Ok(rdf_query_ten(h))
      [] name = "eleven" -> Ok(rdf_query_eleven(h))
      [] name = "twelve" -> Ok(rdf_query_twelve(h))
      [] name = "thirteen" -> Ok(rdf_query_thirteen(h))
      [] name = "fourteen" -> Ok(rdf_query_fourteen(h))
      [] name = "fifteen" -> Ok(rdf_query_fifteen(h))
      [] name = "sixteen" -> Ok(rdf_query_sixteen(h))
      [] name = "seventeen" -> Ok(rdf_query_seventeen(h))
      [] name = "eighteen" -> Ok(rdf_query_eighteen(h))
      [] name = "nineteen" -> Ok(rdf_query_nineteen(h))
      [] name = "twenty" -> Ok(rdf_query_twenty(h))
      [] name = "twenty_one" -> Ok(rdf_query_twenty_one(h))
      [] name = "twenty_two" -> Ok(rdf_query_twenty_two(h))

Evaluate(b, name, h) == IF b = "owlready2" THEN owl_query(name, h) ELSE rdf_query(name, h)

----------------------------------------------------------------------------
(* run_all_queries_rl: the dict literal of each module, entry by entry, as *)
(* <<key, name of the query function whose len is stored under the key>>.  *)

\* the dict literal with the key "three" computed from query_two
owl_run_entries_miskeyed ==
    << <<"two", "two">>, <<"three", "two">>, <<"four", "four">>, <<"five", "five">>,
       <<"seven", "seven">>, <<"eight", "eight">>, <<"ten", "ten">>,
       <<"eleven", "eleven">>, <<"twelve", "twelve">>, <<"fifteen", "fifteen">>,
       <<"nineteen", "nineteen">>, <<"twenty", "twenty">>,
       <<"twenty_one", "twenty_one">>, <<"twenty_two", "twenty_two">> >>

owl_run_entries ==
    << <<"two", "two">>, <<"three", "three">>, <<"four", "four">>, <<"five", "five">>,
       <<"seven", "seven">>, <<"eight", "eight">>, <<"ten", "ten">>,
       <<"eleven", "eleven">>, <<"twelve", "twelve">>, <<"fifteen", "fifteen">>,
       <<"nineteen", "nineteen">>, <<"twenty", "twenty">>,
       <<"twenty_one", "twenty_one">>, <<"twenty_two", "twenty_two">> >>

rdf_run_entries ==
    << <<"two", "two">>, <<"three", "three">>, <<"four", "four">>, <<"five", "five">>,
       <<"seven", "seven">>, <<"eight", "eight">>, <<"ten", "ten">>,
       <<"eleven", "eleven">>, <<"twelve", "twelve">>, <<"fifteen", "fifteen">>,
       <<"sixteen", "sixteen">>, <<"nineteen", "nineteen">>, <<"twenty", "twenty">>,
       <<"twenty_one", "twenty_one">>, <<"twenty_two", "twenty_two">> >>

RunEntries(b) == IF b = "owlready2" THEN owl_run_entries ELSE rdf_run_entries

AllowList(b) == [i \in DOMAIN RunEntries(b) |-> RunEntries(b)[i][1]]

\* len(results)
len(rows) == Cardinality(rows)

\* d[key] = value while the dict literal is built
SetItem(d, key, value) ==
    [k \in DOMAIN d \cup {key} |-> IF k = key THEN value ELSE d[k]]

EmptyDict == [k \in {} |-> 0]

\* the dict run_all_queries_rl returns when no evaluation raises
run_all_queries_rl(b, h) ==
    [k \in Range(AllowList(b)) |->
        LET e == CHOOSE e \in Range(RunEntries(b)) : e[1] = k
        IN  len(Evaluate(b, e[2], h).rows)]

\* An exception of a collaborator, as it leaves the collaborator: it names
\* no query.
Exception(type) == [type |-> type, query |-> ""]
NoError == Exception("")

\* Neither run_all_queries_rl nor a query function has a try/except: what the
\* evaluation of query `name` raises reaches the caller as it is.
Propagate(exc, name) == exc

----------------------------------------------------------------------------
(* The entry point of each module, as its sequence of statements. *)

\* owlready2: get_ontology(path).load(); sync_reasoner_pellet(...);
\*            print(run_all_queries_rl(onto))
\* rdflib:    g = _load_graph()  (the DeductiveClosure line is commented out);
\*            print(run_all_queries_rl(g))
\* the owlready2 entry point without its sync_reasoner_pellet statement
ProgramWithoutReasoner(b) == <<"load", "run">>

Program(b) ==
    IF b = "owlready2" THEN <<"load", "materialize", "run">> ELSE <<"load", "run">>

Statement == IF pc \in DOMAIN Program(backend) THEN Program(backend)[pc] ELSE "end"

\* Composition of a relation with itself until nothing is added
RECURSIVE TransitiveClosure(_)
TransitiveClosure(R) ==
    LET more == R \cup UNION {{<<a[1], b[2]>> : b \in {c \in R : c[1] = a[2]}} : a \in R}
    IN  IF more = R THEN R ELSE TransitiveClosure(more)

\* The entailments sync_reasoner_pellet(infer_property_values=True) adds for
\* the property characteristics the queries name: isPartOf is transitive,
\* hasCollaborationWith is symmetric.
Entail(f) ==
    f \cup {<<r[1], "isPartOf", r[2]>> :
               r \in TransitiveClosure(SelectProperty(f, "isPartOf"))}
      \cup {<<t[3], "hasCollaborationWith", t[1]>> :
               t \in Triples(f, "hasCollaborationWith")}

NoHandle == [loaded |-> FALSE, materialized |-> 0, facts |-> {}]

----------------------------------------------------------------------------
(* The ontologies the programs are run on. *)

PropertyFacts(S, p, O) == {<<s, p, o>> : s \in S, o \in O}
ClassFacts(S, c) == {<<s, RdfType, Class(c)>> : s \in S}

P1 == URIRef("p1")
P2 == URIRef("p2")
O1 == URIRef("o1")
O2 == URIRef("o2")
C1 == URIRef("c1")

Entities == Persons \cup Orgs \cup Courses \cup Disciplines

\* the properties the docstrings declare functional
FunctionalProperties == {"hasAge", "hasHead"}

Consistent(f) ==
    \A p \in FunctionalProperties : \A t \in Triples(f, p) : \A u \in Triples(f, p) :
        t[1] = u[1] => t[3] = u[3]

RECURSIVE SubsetsUpTo(_, _)
SubsetsUpTo(S, k) ==
    IF k = 0 THEN {{}}
    ELSE LET prev == SubsetsUpTo(S, k - 1)
         IN  prev \cup {s \cup {x} : s \in prev, x \in S}

\* a student of o1, which is part of an Engineering college o2, taking the
\* course its dean teaches
Campus ==
    {<<P1, RdfType, Class("Student")>>, <<P1, "isStudentOf", O1>>,
     <<O1, "isPartOf", O2>>, <<O2, "hasCollegeDiscipline", Engineering>>,
     <<O1, RdfType, Class("Organization")>>, <<O1, "hasDean", P2>>,
     <<P2, "teachesCourse", C1>>, <<P1, "takesCourse", C1>>}

Pool ==
    PropertyFacts(Persons, "knows", Persons)
      \cup PropertyFacts({P1}, "isMemberOf", {O1})
      \cup PropertyFacts(Orgs, "isPartOf", Orgs)
      \cup PropertyFacts(Persons, "hasAge", Ages)
      \cup ClassFacts({P1}, "T20CricketFan")
      \cup PropertyFacts({O1}, "hasAlumnus", {P1})
      \cup PropertyFacts({O1}, "isAffiliatedOrganizationOf", {O2})
      \cup PropertyFacts({P1}, "hasCollaborationWith", {P2})
      \cup PropertyFacts({P1}, "isAdvisedBy", {P2})
      \cup ClassFacts(Persons, "Person")
      \cup PropertyFacts({P1}, "isHeadOf", {O1})
      \cup PropertyFacts({O1}, "hasHead", Persons)
      \cup ClassFacts({P1}, "Faculty")
      \cup PropertyFacts({P1}, "hasSameHomeTownWith", {P2})
      \cup PropertyFacts({O1}, "hasCollegeDiscipline", Disciplines)
      \cup PropertyFacts({NonScience}, "hasCollegeDiscipline", {O1})

Ontologies ==
    {f \in {base \cup extra : base \in {{}, Campus}, extra \in SubsetsUpTo(Pool, MaxFacts)} :
        Consistent(f)}

JoinPool ==
    ClassFacts(Persons, "Student")
      \cup PropertyFacts(Persons, "isStudentOf", Orgs)
      \cup PropertyFacts(Orgs, "isPartOf", Orgs)
      \cup PropertyFacts(Orgs, "hasCollegeDiscipline", Disciplines)

JoinOntologies == SubsetsUpTo(JoinPool, MaxJoinFacts)

----------------------------------------------------------------------------
(* Runs of an entry point. *)

Init ==
    /\ file \in Ontologies
    /\ backend \in Backends
    /\ pc = 1
    /\ status = "running"
    /\ handle = NoHandle
    /\ idx = 0
    /\ counts = EmptyDict
    /\ report = EmptyDict
    /\ error = NoError
    /\ calls = <<>>

\* a failure after which the counts computed so far are handed out as a report
RaiseReturningPartial(exc) ==
    /\ status' = "raised"
    /\ error' = exc
    /\ report' = counts
    /\ UNCHANGED <<file, backend, pc, handle, idx, counts, calls>>

Raise(exc) ==
    /\ status' = "raised"
    /\ error' = exc
    /\ counts' = EmptyDict
    /\ UNCHANGED <<file, backend, pc, handle, idx, report, calls>>

\* onto = get_ontology(path_to_owl).load()  /  g = _load_graph()
Load ==
    /\ status = "running" /\ Statement = "load"
    /\ handle' = [loaded |-> TRUE, materialized |-> 0, facts |-> file]
    /\ pc' = pc + 1
    /\ UNCHANGED <<file, backend, status, idx, counts, report, error, calls>>

\* the parser of the collaborator raises
LoadRaises ==
    /\ status = "running" /\ Statement = "load"
    /\ Raise(Exception("ParserError"))

\* with onto: sync_reasoner_pellet(...): blocks until the reasoner is done
Materialize ==
    /\ status = "running" /\ Statement = "materialize"
    /\ handle' = [handle EXCEPT !.materialized = @ + 1, !.facts = Entail(@)]
    /\ pc' = pc + 1
    /\ UNCHANGED <<file, backend, status, idx, counts, report, error, calls>>

\* the reasoner raises
MaterializeRaises ==
    /\ status = "running" /\ Statement = "materialize"
    /\ Raise(Exception("ReasonerError"))

\* the next entry of the dict literal: key: len(query_<name>(handle))
EvalQuery ==
    /\ status = "running" /\ Statement = "run"
    /\ idx < Len(RunEntries(backend))
    /\ LET entry == RunEntries(backend)[idx + 1]
           out == Evaluate(backend, entry[2], handle.facts)
       IN  IF out.ok
           THEN /\ counts' = SetItem(counts, entry[1], len(out.rows))
                /\ idx' = idx + 1
                /\ UNCHANGED <<file, backend, pc, status, handle, report, error, calls>>
           ELSE Raise(Propagate(Exception(out.exc), entry[1]))

\* the collaborator (query engine, quadstore) raises during the next entry
EvalRaises ==
    /\ status = "running" /\ Statement = "run"
    /\ idx < Len(RunEntries(backend))
    /\ Raise(Propagate(Exception("CollaboratorError"), RunEntries(backend)[idx + 1][1]))

\* the dict is complete: print(run_all_queries_rl(handle))
ReturnReport ==
    /\ status = "running" /\ Statement = "run"
    /\ idx = Len(RunEntries(backend))
    /\ report' = counts
    /\ status' = "done"
    /\ UNCHANGED <<file, backend, pc, handle, idx, counts, error, calls>>

Next ==
    \/ Load
    \/ LoadRaises
    \/ Materialize
    \/ MaterializeRaises
    \/ EvalQuery
    \/ EvalRaises
    \/ ReturnReport

Spec == Init /\ [][Next]_vars

----------------------------------------------------------------------------
(* Direct calls of one query function, twice in succession, on a handle. *)

InitCallsOn(ontologies) ==
    /\ file \in ontologies
    /\ backend \in Backends
    /\ pc = 1
    /\ status = "calls"
    /\ handle = [loaded |-> TRUE, materialized |-> 0, facts |-> file]
    /\ idx = 0
    /\ counts = EmptyDict
    /\ report = EmptyDict
    /\ error = NoError
    /\ calls = <<>>

\* query_<name>(handle): the functions only read the handle
CallQuery(name) ==
    /\ status = "calls" /\ calls = <<>>
    /\ calls' = <<[query |-> name, outcome |-> Evaluate(backend, name, handle.facts)]>>
    /\ UNCHANGED <<file, backend, pc, status, handle, idx, counts, report, error>>

CallAgain ==
    /\ status = "calls" /\ Len(calls) = 1
    /\ calls' = Append(calls, [query |-> calls[1].query,
                               outcome |-> Evaluate(backend, calls[1].query, handle.facts)])
    /\ UNCHANGED <<file, backend, pc, status, handle, idx, counts, report, error>>

InitCalls == InitCallsOn(Ontologies)

NextCalls ==
    \/ \E name \in Range(QueryNames) : CallQuery(name)
    \/ CallAgain

SpecCalls == InitCalls /\ [][NextCalls]_vars

InitJoin == InitCallsOn(JoinOntologies)

NextJoin ==
    \/ CallQuery("twenty_one")
    \/ CallAgain

SpecJoin == InitJoin /\ [][NextJoin]_vars

----------------------------------------------------------------------------
(* _run_sparql on the result of any SELECT query. *)

\* the terms a binding of a row can be: an IRI, literals with the same text
\* as the IRI or as each other, the empty literal, and None for an unbound
\* variable
RowTerms ==
    {URIRef("a"), Literal("a", ""), Literal("1", "integer"),
     Literal("1", "nonNegativeInteger"), Literal("", ""), None}

RowsOfArity(n) == [1..n -> RowTerms]

\* what g.query(query) can return: a set of distinct rows of one arity
SparqlResults == UNION {SubsetsUpTo(RowsOfArity(n), MaxRows) : n \in 1..MaxArity}

InitSparql ==
    /\ file = {}
    /\ backend = "rdflib"
    /\ pc = 1
    /\ status = "sparql"
    /\ handle = [loaded |-> TRUE, materialized |-> 0, facts |-> file]
    /\ idx = 0
    /\ counts = EmptyDict
    /\ report = EmptyDict
    /\ error = NoError
    /\ calls = <<>>

\* _run_sparql(g, query), where g.query(query) yields qres
RunSparql ==
    /\ status = "sparql" /\ calls = <<>>
    /\ \E qres \in SparqlResults :
          calls' = <<[query |-> "_run_sparql", qres |-> qres,
                      outcome |-> Ok(run_sparql(qres))]>>
    /\ UNCHANGED <<file, backend, pc, status, handle, idx, counts, report, error>>

NextSparql == RunSparql

SpecSparql == InitSparql /\ [][NextSparql]_vars

----------------------------------------------------------------------------
(* How an entity, a row and an age appear in a ResultSet of a backend:     *)
(* owlready2 results hold the individuals and Python values themselves,    *)
(* rdflib results hold tuples of their str forms.                          *)

EntityIn(b, x) == IF b = "rdflib" THEN Str(x) ELSE x
TupleIn(b, row) == [i \in DOMAIN row |-> EntityIn(b, row[i])]
AgeTupleIn(b, x, a) == IF b = "rdflib" THEN <<Str(x), Str(a)>> ELSE <<x, IntOf(a)>>
MemberIn(b, x) == IF b = "rdflib" THEN <<Str(x)>> ELSE x

CallsOf(name) == {i \in DOMAIN calls : calls[i].query = name}

\* the tags (properties, classes) a query reads
Reads(name) ==
    CASE name = "one" -> {"knows"}
      [] name = "two" -> {"isMemberOf"}
      [] name = "three" -> {"isPartOf"}
      [] name = "four" -> {"hasAge"}
      [] name = "five" -> {"T20CricketFan"}
      [] name = "six" -> {"SelfAwarePerson"}
      [] name = "seven" -> {"hasAlumnus"}
      [] name = "eight" -> {"isAffiliatedOrganizationOf"}
      [] name = "nine" -> {"hasCollegeDiscipline"}
      [] name = "ten" -> {"hasCollaborationWith"}
      [] name = "eleven" -> {"isAdvisedBy"}
      [] name = "twelve" -> {"Person"}
      [] name = "thirteen" -> {"WomanCollege"}
      [] name = "fourteen" -> {"LeisureStudent"}
      [] name = "fifteen" -> {"isHeadOf"}
      [] name = "sixteen" -> {"hasHead"}
      [] name = "seventeen" -> {"UGStudent"}
      [] name = "eighteen" -> {"PeopleWithManyHobbies"}
      [] name = "nineteen" -> {"Faculty"}
      [] name = "twenty" -> {"hasSameHomeTownWith"}
      [] name = "twenty_one" ->
            {"Student", "isStudentOf", "isPartOf", "hasCollegeDiscipline"}
      [] name = "twenty_two" ->
            {"Student", "Organization", "hasDean", "teachesCourse", "takesCourse"}

\* the facts of a property, or the memberships of a class
Members(f, tag) == {t \in f : t[2] = tag \/ (t[2] = RdfType /\ t[3] = Class(tag))}

AtRun == Statement = "run"

----------------------------------------------------------------------------
(* C1: query_twenty_one, in both backends: whenever Student s isStudentOf  *)
(* y, y isPartOf z and z hasCollegeDiscipline Engineering, the ResultSet   *)
(* holds the pair (s, y), and every tuple of the ResultSet has arity 2.    *)
C1_JoinProjectsPairs ==
    \A i \in CallsOf("twenty_one") :
        /\ calls[i].outcome.ok
        /\ \A s \in Entities : \A y \in Entities : \A z \in Entities :
              ( /\ <<s, RdfType, Class("Student")>> \in handle.facts
                /\ <<s, "isStudentOf", y>> \in handle.facts
                /\ <<y, "isPartOf", z>> \in handle.facts
                /\ <<z, "hasCollegeDiscipline", Engineering>> \in handle.facts )
              => TupleIn(backend, <<s, y>>) \in calls[i].outcome.rows
        /\ \A t \in calls[i].outcome.rows : Len(t) = 2

(* C2: query_four: an individual with no hasAge value contributes no       *)
(* tuple; an individual with exactly one hasAge value a, for any           *)
(* non-negative integer a, contributes exactly the one tuple (x, a).       *)
C2_AgeOneTuplePerValue ==
    \A i \in CallsOf("four") :
        /\ calls[i].outcome.ok
        /\ \A x \in Entities :
              LET ages == values(handle.facts, x, "hasAge")
                  mine == {t \in calls[i].outcome.rows : t[1] = EntityIn(backend, x)}
              IN  /\ ages = {} => mine = {}
                  /\ \A a \in ages : ages = {a} => mine = {AgeTupleIn(backend, x, a)}

(* C3 (as stated): in every run of either backend's entry point the        *)
(* materialization happens exactly once and is complete before the first   *)
(* query: no query is evaluated on a handle loaded but not materialized.   *)
C3_MaterializedBeforeQueries ==
    AtRun => handle.loaded /\ handle.materialized = 1

(* C3 (amended): in every run of the owlready2 entry point the             *)
(* materialization happens exactly once and is complete before the first   *)
(* query; the rdflib entry point never materializes and evaluates its      *)
(* queries on the graph as loaded.                                         *)
C3_ReasonerBackendMaterializesOnce ==
    /\ handle.materialized <= 1
    /\ (backend = "owlready2" /\ AtRun)
          => handle.loaded /\ handle.materialized = 1 /\ handle.facts = Entail(file)
    /\ backend = "rdflib" => handle.materialized = 0
    /\ (backend = "rdflib" /\ AtRun) => handle.loaded /\ handle.facts = file

\* an owlready2 run that has evaluated queries on facts the reasoner added
C3_Witness ==
    /\ backend = "owlready2" /\ AtRun /\ idx >= 1
    /\ handle.materialized = 1
    /\ handle.facts # file

(* C4: when every evaluation succeeds, the RunReport has exactly one entry *)
(* per name of the allow-list, as many as the allow-list is long, and the  *)
(* value under a name is the cardinality of the ResultSet of the query of  *)
(* that name, a non-negative integer.                                      *)
C4_ReportPerAllowListName ==
    status = "done" =>
        /\ DOMAIN report = Range(AllowList(backend))
        /\ Cardinality(DOMAIN report) = Len(AllowList(backend))
        /\ Len(AllowList(backend)) \in {14, 15}
        /\ \A k \in DOMAIN report :
              /\ report[k] \in Nat
              /\ Evaluate(backend, k, handle.facts).ok
              /\ report[k] = Cardinality(Evaluate(backend, k, handle.facts).rows)

\* a finished run whose report holds different non-zero counts
C4_Witness ==
    /\ status = "done"
    /\ report["twenty_one"] = 1
    /\ report["three"] = 2
    /\ report["two"] = 0

(* C5: when the evaluation of a query fails inside run_all_queries_rl      *)
(* because the backend fails, the caller gets a BackendError carrying the  *)
(* name of the failing query.                                              *)
C5_BackendErrorNamesQuery ==
    (status = "raised" /\ AtRun) =>
        /\ error.type = "BackendError"
        /\ error.query = AllowList(backend)[idx + 1]

(* C6: query_one: for all entities A and B, (A, B) is in the ResultSet if  *)
(* and only if A knows B; a reflexive fact A knows A yields (A, A).        *)
C6_KnowsScanExact ==
    \A i \in CallsOf("one") :
        /\ calls[i].outcome.ok
        /\ \A A \in Entities : \A B \in Entities :
              TupleIn(backend, <<A, B>>) \in calls[i].outcome.rows
                  <=> <<A, "knows", B>> \in handle.facts
        /\ calls[i].outcome.rows
              \subseteq {TupleIn(backend, <<A, B>>) : A \in Entities, B \in Entities}

\* query_one was called on a handle where p1 knows itself and p2
C6_Witness ==
    /\ CallsOf("one") # {}
    /\ <<P1, "knows", P1>> \in handle.facts
    /\ <<P1, "knows", P2>> \in handle.facts
    /\ TupleIn(backend, <<P1, P1>>) \in calls[1].outcome.rows

(* C7: each of the 22 query functions, evaluated twice in succession on    *)
(* the same handle, returns equal ResultSets, and the facts of the handle  *)
(* after the two evaluations are the facts it had before.                  *)
C7_TwoCallsEqualResultSets ==
    Len(calls) = 2 =>
        /\ calls[1].outcome.ok /\ calls[2].outcome.ok
        /\ calls[1].outcome.rows = calls[2].outcome.rows
        /\ handle.facts = file

(* C8: for every query, when a property or class it reads has no member,   *)
(* its evaluation succeeds with an empty ResultSet, and the run records 0  *)
(* under the name of the query where the run has an entry for it.          *)
C8_ZeroMembersEmptyAndCounted ==
    status = "done" =>
        \A q \in Range(QueryNames) :
            (\E tag \in Reads(q) : Members(handle.facts, tag) = {}) =>
                /\ Evaluate(backend, q, handle.facts) = Ok({})
                /\ q \in Range(AllowList(backend)) => q \in DOMAIN report /\ report[q] = 0

(* C9: query_nine, in both backends: the ResultSet is exactly the set of   *)
(* entities x with the fact (x, hasCollegeDiscipline, NonScience).         *)
C9_NonScienceSubjects ==
    \A i \in CallsOf("nine") :
        /\ calls[i].outcome.ok
        /\ calls[i].outcome.rows =
              {MemberIn(backend, x) :
                  x \in {e \in Entities :
                           <<e, "hasCollegeDiscipline", NonScience>> \in handle.facts}}

(* C10: over the same materialized facts the two backends return equal     *)
(* RunReports: the same names, and the same cardinality under each name.   *)
C10_BackendsInterchangeable ==
    status = "done" =>
        report = run_all_queries_rl(CHOOSE b \in Backends : b # backend, handle.facts)

(* C11: run_all_queries_rl evaluates the entries of its dict literal one   *)
(* at a time in the order written (two, three, four, ...); when the        *)
(* evaluation of one fails, no later query is evaluated, no RunReport, not *)
(* even a partial one, is returned, and the counts computed are discarded. *)
C11_AbortOnFirst ==
    /\ \A b \in Backends :
          /\ AllowList(b)[1] = "two" /\ AllowList(b)[2] = "three"
          /\ AllowList(b)[3] = "four"
    /\ (status \in {"running", "done"} /\ AtRun) =>
          /\ idx <= Len(AllowList(backend))
          /\ DOMAIN counts = {AllowList(backend)[i] : i \in 1..idx}
    /\ status = "done" => idx = Len(AllowList(backend)) /\ error = NoError
    /\ status = "raised" =>
          /\ report = EmptyDict
          /\ counts = EmptyDict
          /\ ~ENABLED EvalQuery
          /\ ~ENABLED EvalRaises
          /\ ~ENABLED ReturnReport

\* a run that failed at its third entry, after two counts were computed,
\* one of them not zero
C11_Witness ==
    /\ status = "raised" /\ AtRun
    /\ idx = 2
    /\ len(Evaluate(backend, "three", handle.facts).rows) > 0

(* C12: _run_sparql preserves cardinality: the set it returns has exactly  *)
(* as many tuples as the SPARQL result has distinct rows; two distinct     *)
(* rows are never mapped to the same tuple of strings.                     *)
C12_RunSparqlPreservesCardinality ==
    \A i \in CallsOf("_run_sparql") :
        Cardinality(calls[i].outcome.rows) = Cardinality(calls[i].qres)

====
